---- MODULE Spec2Model ----
(***************************************************************************)
(* Model of services/buyer_message.py: sanitize_buyer_tip (the line filter *)
(* built on one combined regular expression) and                           *)
(* build_agent_contacts_block (the contacts block builder).                *)
(*                                                                         *)
(* A text is a sequence of characters.  A character is written as a short  *)
(* name.  The string literals of the source are UTF-8 text (the file shows *)
(* them through a single-byte code page); they are read here as the        *)
(* characters they encode:                                                 *)
(*   PHONE U+260E, VS16 U+FE0F, RECEIVER U+1F4DE, MEGA U+1F4E3,            *)
(*   LOUD U+1F4E2, BELL U+1F514, SPEECH U+1F4AC, BOOK U+1F4D6,             *)
(*   BOOKS U+1F4DA, HEAVYMINUS U+2796, HYPHEN '-', BOXH U+2500,            *)
(*   COLON ':', FWCOLON U+FF1A, SP ' ', TAB, NL '\n', CR '\r'.             *)
(* A keyword (a fixed run of letters or ideographs of a pattern) is one    *)
(* character of the model, standing for the word in any letter case        *)
(* (re.IGNORECASE): zh_support, zh_channel, zh_official (zh_official       *)
(* followed by zh_channel is the official-channel keyword), zh_restock,    *)
(* zh_tutorial, Support, Channel, Official, Restock, Group, Tutorial.      *)
(* OPENB and CLOSEB are the bold tags, X is any other character.           *)
(***************************************************************************)
EXTENDS Integers, Sequences, FiniteSets, TLC

\* ------------------------------------------------------------------------
\* Characters and character classes of the regular expressions
\* ------------------------------------------------------------------------
Whitespace == {"SP", "TAB", "NL", "CR"}

Emoji == {"PHONE", "VS16", "RECEIVER", "MEGA", "LOUD", "BELL", "SPEECH",
          "BOOK", "BOOKS"}

Keywords == {"zh_support", "zh_channel", "zh_official", "zh_restock",
             "zh_tutorial", "Support", "Channel", "Official", "Restock",
             "Group", "Tutorial"}

Dashes == {"HEAVYMINUS", "HYPHEN", "BOXH"}

Colons == {"FWCOLON", "COLON"}

Alphabet == Whitespace \cup Emoji \cup Keywords \cup Dashes \cup Colons
            \cup {"OPENB", "CLOSEB", "X"}

\* '.' without re.DOTALL: any character but the newline
Dot == Alphabet \ {"NL"}

\* the character classes written in the patterns
SupportGlyphs == {"PHONE", "VS16", "RECEIVER"}
ChannelGlyphs == {"MEGA", "LOUD"}
RestockGlyphs == {"BELL", "SPEECH"}
TutorialGlyphs == {"BOOK", "BOOKS"}

\* the repetition counts written in the source
MinSeparator == 8
BlankRun == 3

\* ------------------------------------------------------------------------
\* Pattern elements: anchors, one character of a class, greedy repetitions
\* ------------------------------------------------------------------------
Bol == [kind |-> "bol", set |-> {}, min |-> 0, many |-> FALSE]
Eol == [kind |-> "eol", set |-> {}, min |-> 0, many |-> FALSE]
One(S) == [kind |-> "cls", set |-> S, min |-> 1, many |-> FALSE]
Lit(c) == One({c})
Star(S) == [kind |-> "cls", set |-> S, min |-> 0, many |-> TRUE]
Plus(S) == [kind |-> "cls", set |-> S, min |-> 1, many |-> TRUE]
AtLeast(S, n) == [kind |-> "cls", set |-> S, min |-> n, many |-> TRUE]

\* the keyword part of each pattern
kw_zh_support == <<Lit("zh_support")>>
kw_zh_channel == <<Lit("zh_channel")>>
kw_zh_official == <<Lit("zh_official"), Lit("zh_channel")>>
kw_zh_restock == <<Lit("zh_restock")>>
kw_zh_tutorial == <<Lit("zh_tutorial")>>
kw_en_support == <<Lit("Support")>>
kw_en_channel == <<Lit("Channel")>>
kw_en_official == <<Lit("Official"), Plus(Whitespace), Lit("Channel")>>
kw_en_restock == <<Lit("Restock"), Plus(Whitespace), Lit("Group")>>
kw_en_tutorial == <<Lit("Tutorial")>>

\* ^[glyphs]\s*KEYWORD[colons].+$
EmojiPattern(glyphs, kw) ==
    <<Bol, One(glyphs), Star(Whitespace)>> \o kw
    \o <<One(Colons), Plus(Dot), Eol>>

\* ^<b>\s*[glyphs]\s*KEYWORD[colons].+</b>$
BoldPattern(glyphs, kw) ==
    <<Bol, Lit("OPENB"), Star(Whitespace), One(glyphs), Star(Whitespace)>>
    \o kw \o <<One(Colons), Plus(Dot), Lit("CLOSEB"), Eol>>

PlainPattern_unanchored(kw) == kw \o <<One(Colons), Plus(Dot), Eol>>

\* ^KEYWORD[colons].+$
PlainPattern(kw) == <<Bol>> \o kw \o <<One(Colons), Plus(Dot), Eol>>

\* ^[dashes]{8,}$
SeparatorPattern == <<Bol, AtLeast(Dashes, MinSeparator), Eol>>

patterns ==
    << EmojiPattern(SupportGlyphs, kw_zh_support),
       EmojiPattern(ChannelGlyphs, kw_zh_channel),
       EmojiPattern(ChannelGlyphs, kw_zh_official),
       EmojiPattern(RestockGlyphs, kw_zh_restock),
       EmojiPattern(TutorialGlyphs, kw_zh_tutorial),
       EmojiPattern(SupportGlyphs, kw_en_support),
       EmojiPattern(ChannelGlyphs, kw_en_channel),
       EmojiPattern(ChannelGlyphs, kw_en_official),
       EmojiPattern(RestockGlyphs, kw_en_restock),
       EmojiPattern(TutorialGlyphs, kw_en_tutorial),
       BoldPattern(SupportGlyphs, kw_zh_support),
       BoldPattern(ChannelGlyphs, kw_zh_channel),
       BoldPattern(ChannelGlyphs, kw_zh_official),
       BoldPattern(RestockGlyphs, kw_zh_restock),
       BoldPattern(SupportGlyphs, kw_en_support),
       BoldPattern(ChannelGlyphs, kw_en_channel),
       BoldPattern(ChannelGlyphs, kw_en_official),
       PlainPattern(kw_zh_support),
       PlainPattern(kw_zh_channel),
       PlainPattern(kw_zh_official),
       PlainPattern(kw_zh_restock),
       PlainPattern(kw_en_support),
       PlainPattern(kw_en_channel),
       PlainPattern(kw_en_official),
       PlainPattern(kw_en_restock),
       SeparatorPattern >>

\* ------------------------------------------------------------------------
\* The backtracking matcher of re (MULTILINE), positions 1 .. Len(s)+1
\* ------------------------------------------------------------------------
NoMatch == 0

\* number of consecutive characters of s from pos on that lie in S
RECURSIVE Run(_, _, _)
Run(s, pos, S) ==
    IF pos > Len(s) \/ s[pos] \notin S THEN 0 ELSE 1 + Run(s, pos + 1, S)

RECURSIVE MatchFrom(_, _, _, _)
RECURSIVE TryCount(_, _, _, _, _)

\* the end of the match of elements k.. of p at pos, as backtracking finds
\* it (longest repetition first), or NoMatch
MatchFrom(p, k, pos, s) ==
    IF k > Len(p) THEN pos
    ELSE IF p[k].kind = "bol"
         THEN IF pos = 1 \/ s[pos - 1] = "NL"
              THEN MatchFrom(p, k + 1, pos, s) ELSE NoMatch
    ELSE IF p[k].kind = "eol"
         THEN IF pos = Len(s) + 1 \/ s[pos] = "NL"
              THEN MatchFrom(p, k + 1, pos, s) ELSE NoMatch
    ELSE LET n == Run(s, pos, p[k].set)
             hi == IF p[k].many \/ n = 0 THEN n ELSE 1
         IN  TryCount(p, k, pos, s, hi)

TryCount(p, k, pos, s, c) ==
    IF c < p[k].min THEN NoMatch
    ELSE LET r == MatchFrom(p, k + 1, pos + c, s)
         IN  IF r # NoMatch THEN r ELSE TryCount(p, k, pos, s, c - 1)

\* '|'.join(...): the first alternative that matches at pos wins
RECURSIVE AltFrom(_, _, _, _)
AltFrom(ps, k, pos, s) ==
    IF k > Len(ps) THEN NoMatch
    ELSE LET r == MatchFrom(ps[k], 1, pos, s)
         IN  IF r # NoMatch THEN r ELSE AltFrom(ps, k + 1, pos, s)

\* compiled_regex.sub('', text): leftmost non-overlapping matches removed
RECURSIVE SubFrom(_, _, _)
SubFrom(ps, s, pos) ==
    IF pos > Len(s) THEN <<>>
    ELSE LET e == AltFrom(ps, 1, pos, s)
         IN  IF e # NoMatch /\ e > pos
             THEN SubFrom(ps, s, e)
             ELSE <<s[pos]>> \o SubFrom(ps, s, pos + 1)

compiled_regex_sub(text) == SubFrom(patterns, text, 1)

RECURSIVE collapse_from_four(_)
collapse_from_four(s) ==
    IF s = <<>> THEN <<>>
    ELSE IF Head(s) = "NL"
         THEN LET n == Run(s, 1, {"NL"})
              IN  (IF n >= BlankRun + 1 THEN <<"NL", "NL">>
                   ELSE SubSeq(s, 1, n))
                  \o collapse_from_four(SubSeq(s, n + 1, Len(s)))
         ELSE <<Head(s)>> \o collapse_from_four(Tail(s))

\* re.sub(r'\n{3,}', '\n\n', s)
RECURSIVE collapse_newlines(_)
collapse_newlines(s) ==
    IF s = <<>> THEN <<>>
    ELSE IF Head(s) = "NL"
         THEN LET n == Run(s, 1, {"NL"})
              IN  (IF n >= BlankRun THEN <<"NL", "NL">>
                   ELSE SubSeq(s, 1, n))
                  \o collapse_newlines(SubSeq(s, n + 1, Len(s)))
         ELSE <<Head(s)>> \o collapse_newlines(Tail(s))

\* str.strip()
RECURSIVE lstrip(_)
lstrip(s) ==
    IF s # <<>> /\ Head(s) \in Whitespace THEN lstrip(Tail(s)) ELSE s

RECURSIVE rstrip(_)
rstrip(s) ==
    IF s # <<>> /\ s[Len(s)] \in Whitespace
    THEN rstrip(SubSeq(s, 1, Len(s) - 1)) ELSE s

strip_left_only(s) == lstrip(s)

strip(s) == rstrip(lstrip(s))

sanitize_buyer_tip(text) ==
    IF text = <<>> THEN text
    ELSE strip(collapse_newlines(compiled_regex_sub(text)))

\* ------------------------------------------------------------------------
\* build_agent_contacts_block
\* ------------------------------------------------------------------------
\* a dict is the sequence of its <<key, value>> items in insertion order,
\* keys distinct; a value is None or a string
None == [none |-> TRUE, str |-> <<>>]
Str(v) == [none |-> FALSE, str |-> v]

\* agent_settings.get(key)
dict_get(d, key) ==
    IF \E i \in 1..Len(d) : d[i][1] = key
    THEN d[CHOOSE i \in 1..Len(d) : d[i][1] = key][2]
    ELSE None

\* truth value of a value in 'if value:'
Truthy(v) == ~v.none /\ v.str # <<>>

Label_en_only(zh, en, lang) == IF lang # "en" THEN zh ELSE en

\* the conditional expression choosing the label
Label(zh, en, lang) == IF lang = "zh" THEN zh ELSE en

\* f"<b>{label}：</b>{value}"
FormatLine(label, v) == <<"OPENB">> \o label \o <<"FWCOLON", "CLOSEB">> \o v.str

\* '\n'.join(parts)
RECURSIVE join(_)
join(parts) ==
    IF parts = <<>> THEN <<>>
    ELSE IF Len(parts) = 1 THEN parts[1]
    ELSE parts[1] \o <<"NL">> \o join(Tail(parts))

\* msg_parts after the four conditional appends, in program order
msg_parts(agent_settings, lang) ==
    LET customer_service == dict_get(agent_settings, "customer_service")
        official_channel == dict_get(agent_settings, "official_channel")
        restock_group == dict_get(agent_settings, "restock_group")
        tutorial_link == dict_get(agent_settings, "tutorial_link")
        p1 == IF Truthy(customer_service)
              THEN <<FormatLine(Label(<<"zh_support">>, <<"Support">>, lang),
                                customer_service)>>
              ELSE <<>>
        p2 == IF Truthy(official_channel)
              THEN Append(p1, FormatLine(
                       Label(<<"zh_official", "zh_channel">>,
                             <<"Official", "SP", "Channel">>, lang),
                       official_channel))
              ELSE p1
        p3 == IF Truthy(restock_group)
              THEN Append(p2, FormatLine(
                       Label(<<"zh_restock">>,
                             <<"Restock", "SP", "Group">>, lang),
                       restock_group))
              ELSE p2
        p4 == IF Truthy(tutorial_link)
              THEN Append(p3, FormatLine(
                       Label(<<"zh_tutorial">>, <<"Tutorial">>, lang),
                       tutorial_link))
              ELSE p3
    IN  p4

build_agent_contacts_block(agent_settings, lang) ==
    IF msg_parts(agent_settings, lang) = <<>> THEN <<>>
    ELSE join(msg_parts(agent_settings, lang))

\* ------------------------------------------------------------------------
\* Inputs
\* ------------------------------------------------------------------------
MaxLen == 5
MaxLines == 4

SeqsUpTo(S, n) == UNION {[1..k -> S] : k \in 0..n}

\* texts of ordinary characters, white space and newlines
PlainChars == {"X", "SP", "TAB", "NL", "CR"}
PlainTexts == SeqsUpTo(PlainChars, MaxLen)

\* texts made of whole lines
Rep(c, n) == [i \in 1..n |-> c]
LineShapes ==
    { <<>>, <<"X">>,
      <<"Support", "COLON", "X">>,
      <<"SP", "Support", "COLON", "X">>,
      <<"BOOK">>,
      <<"zh_tutorial", "FWCOLON", "X">>,
      Rep("HYPHEN", MinSeparator) }
LineTexts == {join(ls) : ls \in UNION {[1..k -> LineShapes] : k \in 1..MaxLines}}

\* one contact-marker line in all its written forms
Categories == {"support", "channel", "official", "restock", "tutorial"}
Languages == {"zh", "en"}

KeywordText(cat, lg) ==
    IF lg = "zh"
    THEN CASE cat = "support" -> <<"zh_support">>
           [] cat = "channel" -> <<"zh_channel">>
           [] cat = "official" -> <<"zh_official", "zh_channel">>
           [] cat = "restock" -> <<"zh_restock">>
           [] cat = "tutorial" -> <<"zh_tutorial">>
    ELSE CASE cat = "support" -> <<"Support">>
           [] cat = "channel" -> <<"Channel">>
           [] cat = "official" -> <<"Official", "SP", "Channel">>
           [] cat = "restock" -> <<"Restock", "SP", "Group">>
           [] cat = "tutorial" -> <<"Tutorial">>

\* the glyphs a writer puts before the keyword of a category
GlyphText(cat) ==
    CASE cat = "support" -> {<<"PHONE">>, <<"PHONE", "VS16">>, <<"RECEIVER">>}
      [] cat \in {"channel", "official"} -> {<<"MEGA">>, <<"LOUD">>}
      [] cat = "restock" -> {<<"BELL">>, <<"SPEECH">>}
      [] cat = "tutorial" -> {<<"BOOK">>, <<"BOOKS">>}

ContactLine(open, glyph, gap, kw, colon, content, close) ==
    open \o glyph \o gap \o kw \o <<colon>> \o content \o close

ContactTextsOf(cat) ==
    { ContactLine(b[1], g, gap, KeywordText(cat, lg), colon, content, b[2])
      \o follow :
        b \in {<< <<>>, <<>> >>, << <<"OPENB">>, <<"CLOSEB">> >>},
        lg \in Languages,
        g \in GlyphText(cat) \cup {<<>>},
        gap \in {<<>>, <<"SP">>, <<"NL">>},
        colon \in Colons,
        content \in {<<>>, <<"X">>},
        follow \in {<<>>, <<"NL", "X">>} }

ContactTexts == UNION {ContactTextsOf(cat) : cat \in Categories}

\* the texts of the documented scenarios
ScenarioTexts ==
    { <<"PHONE", "VS16", "SP", "zh_support", "FWCOLON", "X", "NL", "X">>,
      <<"X", "NL", "NL", "NL", "NL", "X">>,
      <<"Support", "COLON", "SP", "X", "NL", "X">> }

Texts == PlainTexts \cup LineTexts \cup ContactTexts \cup ScenarioTexts

\* agent settings: up to four distinct keys in any insertion order
Keys == {"customer_service", "official_channel", "restock_group",
         "tutorial_link"}
Values == {None, Str(<<>>), Str(<<"X">>),
           Str(<<"X", "NL", "Support", "COLON", "X">>)}
SettingsOfSize(n) ==
    { [i \in 1..n |-> <<ks[i], vs[i]>>] :
        ks \in {f \in [1..n -> Keys] : \A i, j \in 1..n : f[i] = f[j] => i = j},
        vs \in [1..n -> Values] }
Settings == UNION {SettingsOfSize(n) : n \in 0..Cardinality(Keys)}
Langs == {"zh", "en", "fr"}

\* ------------------------------------------------------------------------
\* State machine: a caller applies the filter to a text (and again to the
\* filtered text), or builds the contacts block and applies the filter to it
\* ------------------------------------------------------------------------
VARIABLES pc, text, sanitized, resanitized, agent_settings, lang, block

vars == <<pc, text, sanitized, resanitized, agent_settings, lang, block>>

Init ==
    /\ sanitized = <<>>
    /\ resanitized = <<>>
    /\ block = <<>>
    /\ \/ /\ pc = "filter"
          /\ text \in Texts
          /\ agent_settings = <<>>
          /\ lang = "zh"
       \/ /\ pc = "build"
          /\ text = <<>>
          /\ agent_settings \in Settings
          /\ lang \in Langs

Sanitize ==
    /\ pc = "filter"
    /\ sanitized' = sanitize_buyer_tip(text)
    /\ pc' = "sanitized"
    /\ UNCHANGED <<text, resanitized, agent_settings, lang, block>>

Resanitize ==
    /\ pc = "sanitized"
    /\ resanitized' = sanitize_buyer_tip(sanitized)
    /\ pc' = "resanitized"
    /\ UNCHANGED <<text, sanitized, agent_settings, lang, block>>

Build ==
    /\ pc = "build"
    /\ block' = build_agent_contacts_block(agent_settings, lang)
    /\ pc' = "built"
    /\ UNCHANGED <<text, sanitized, resanitized, agent_settings, lang>>

SanitizeBlock ==
    /\ pc = "built"
    /\ sanitized' = sanitize_buyer_tip(block)
    /\ pc' = "piped"
    /\ UNCHANGED <<text, resanitized, agent_settings, lang, block>>

Next == Sanitize \/ Resanitize \/ Build \/ SanitizeBlock

Spec == Init /\ [][Next]_vars

\* ------------------------------------------------------------------------
\* Properties
\* ------------------------------------------------------------------------
Filtered == pc \in {"sanitized", "resanitized", "piped"}

\* the lines of a text, split on the newline
RECURSIVE Lines(_)
Lines(s) ==
    LET n == Run(s, 1, Dot)
    IN  IF n = Len(s) THEN <<s>>
        ELSE <<SubSeq(s, 1, n)>> \o Lines(SubSeq(s, n + 2, Len(s)))

HasPrefix(l, p) == Len(l) >= Len(p) /\ SubSeq(l, 1, Len(p)) = p

\* a line that, taken alone, is matched from its start to its end
LineMatches(l) ==
    \E k \in 1..Len(patterns) : MatchFrom(patterns[k], 1, 1, l) = Len(l) + 1

HasTripleNewline(s) ==
    \E i \in 1..(Len(s) - 2) : s[i] = "NL" /\ s[i + 1] = "NL" /\ s[i + 2] = "NL"

InlineGaps == {<<>>, <<"SP">>}

\* glyph, optional white space, keyword, colon, at least one more character
IsEmojiContactLine(l) ==
    \E cat \in Categories, lg \in Languages, colon \in Colons, gap \in InlineGaps :
      \E g \in GlyphText(cat) :
        LET p == g \o gap \o KeywordText(cat, lg) \o <<colon>>
        IN  HasPrefix(l, p) /\ Len(l) > Len(p)

\* keyword, colon, at least one more character
IsPlainContactLine(l) ==
    \E cat \in Categories, lg \in Languages, colon \in Colons :
        LET p == KeywordText(cat, lg) \o <<colon>>
        IN  HasPrefix(l, p) /\ Len(l) > Len(p)

\* <b>, one glyph of the class, keyword, colon, content, </b>
IsBoldContactLine(l) ==
    \E cat \in Categories, lg \in Languages, colon \in Colons, gap \in InlineGaps :
      \E g \in {gl \in GlyphText(cat) : Len(gl) = 1} :
        LET p == <<"OPENB">> \o g \o gap \o KeywordText(cat, lg) \o <<colon>>
        IN  /\ HasPrefix(l, p)
            /\ Len(l) > Len(p) + 1
            /\ l[Len(l)] = "CLOSEB"

Removed(IsMarker(_)) ==
    \A i \in 1..Len(Lines(text)) :
        IsMarker(Lines(text)[i])
        => \A j \in 1..Len(Lines(sanitized)) :
               Lines(sanitized)[j] # Lines(text)[i]

\* C1: filtering a filtered text changes nothing,
\* sanitize_buyer_tip(sanitize_buyer_tip(x)) = sanitize_buyer_tip(x)
C1_Idempotent == pc = "resanitized" => resanitized = sanitized

\* C2: every line made of a glyph of the category (the telephone sign with
\* its variation selector included), optional white space, the keyword, a
\* colon and further content is removed; Scenario 1 yields its second line
C2_EmojiLinesRemoved ==
    pc = "sanitized"
    => /\ Removed(IsEmojiContactLine)
       /\ text = <<"PHONE", "VS16", "SP", "zh_support", "FWCOLON", "X", "NL", "X">>
          => sanitized = <<"X">>

\* C3: for every category and language a plain line keyword, colon, content
\* (no glyph, no bold tag) is removed
C3_PlainLinesRemoved == pc = "sanitized" => Removed(IsPlainContactLine)

\* C4: for every category and language a line <b> glyph keyword colon
\* content </b> is removed
C4_BoldLinesRemoved == pc = "sanitized" => Removed(IsBoldContactLine)

\* C5: the output never holds three or more consecutive newlines, and
\* "X\n\n\n\nX" yields "X\n\nX"
C5_NoTripleNewline ==
    /\ Filtered => ~HasTripleNewline(sanitized)
    /\ pc = "sanitized" /\ text = <<"X", "NL", "NL", "NL", "NL", "X">>
       => sanitized = <<"X", "NL", "NL", "X">>

\* a run of blank lines that only the removal of a contact line created
C5_Witness ==
    /\ pc = "sanitized"
    /\ ~HasTripleNewline(text)
    /\ HasTripleNewline(compiled_regex_sub(text))
    /\ sanitized = <<"X", "NL", "NL", "X">>

\* C6: the output neither starts nor ends with a white-space character,
\* and the empty text yields the empty text
C6_Trimmed ==
    /\ Filtered
       => \/ sanitized = <<>>
          \/ /\ sanitized[1] \notin Whitespace
             /\ sanitized[Len(sanitized)] \notin Whitespace
    /\ pc = "sanitized" /\ text = <<>> => sanitized = <<>>

C6_Witness ==
    /\ pc = "sanitized"
    /\ text # <<>>
    /\ text[1] \in Whitespace
    /\ text[Len(text)] \in Whitespace
    /\ sanitized # <<>>

\* the reference result of the builder: the fields in the fixed order
FieldOrder == <<"customer_service", "official_channel", "restock_group",
                "tutorial_link">>

RefLabel(key, lg) ==
    CASE key = "customer_service" ->
             IF lg = "zh" THEN <<"zh_support">> ELSE <<"Support">>
      [] key = "official_channel" ->
             IF lg = "zh" THEN <<"zh_official", "zh_channel">>
             ELSE <<"Official", "SP", "Channel">>
      [] key = "restock_group" ->
             IF lg = "zh" THEN <<"zh_restock">>
             ELSE <<"Restock", "SP", "Group">>
      [] key = "tutorial_link" ->
             IF lg = "zh" THEN <<"zh_tutorial">> ELSE <<"Tutorial">>

RefPresent(d, key) ==
    \E i \in 1..Len(d) : d[i][1] = key /\ ~d[i][2].none /\ d[i][2].str # <<>>

RefValue(d, key) == (CHOOSE v \in {d[i] : i \in 1..Len(d)} : v[1] = key)[2].str

RECURSIVE RefBlockFrom(_, _, _)
RefBlockFrom(d, lg, keys) ==
    IF keys = <<>> THEN <<>>
    ELSE LET k == keys[Len(keys)]
             before == RefBlockFrom(d, lg, SubSeq(keys, 1, Len(keys) - 1))
         IN  before \o (IF before = <<>> THEN <<>> ELSE <<"NL">>)
             \o <<"OPENB">> \o RefLabel(k, lg) \o <<"FWCOLON", "CLOSEB">>
             \o RefValue(d, k)

RefBlock(d, lg) ==
    RefBlockFrom(d, lg, SelectSeq(FieldOrder, LAMBDA k : RefPresent(d, k)))

\* C7: the block is one line <b>LABEL：</b>VALUE per present, non-empty
\* field, in the fixed field order whatever the insertion order of the keys,
\* joined by single newlines, Chinese labels for lang 'zh' and English ones
\* for any other lang, empty when no field is present
C7_BuildReference ==
    pc \in {"built", "piped"} => block = RefBlock(agent_settings, lang)

\* keys inserted in reverse of the field order, a language that is neither
\* zh nor en
C7_Witness ==
    /\ pc = "built"
    /\ lang = "fr"
    /\ Len(agent_settings) = 4
    /\ agent_settings[1][1] = "tutorial_link"
    /\ agent_settings[4][1] = "customer_service"
    /\ \A i \in 1..4 : Truthy(agent_settings[i][2])
    /\ Len(Lines(block)) >= 4

\* C8: removal is per line: the input lines that taken alone match no
\* pattern are exactly the lines of the output, in order (white space at
\* the ends of a line and blank lines set aside)
KeptLines(ls) ==
    SelectSeq([i \in 1..Len(ls) |-> strip(ls[i])], LAMBDA l : l # <<>>)

C8_PerLineRemoval ==
    pc = "sanitized"
    => KeptLines(SelectSeq(Lines(text), LAMBDA l : ~LineMatches(l)))
       = KeptLines(Lines(sanitized))

\* C9: no line of the output matches a pattern of the catalog
C9_NoLeak ==
    pc = "sanitized"
    => \A i \in 1..Len(Lines(sanitized)) : ~LineMatches(Lines(sanitized)[i])

\* values without newline and without white space at either end
CleanValue(v) ==
    \/ v.none
    \/ v.str = <<>>
    \/ /\ \A i \in 1..Len(v.str) : v.str[i] # "NL"
       /\ v.str[1] \notin Whitespace
       /\ v.str[Len(v.str)] \notin Whitespace

CleanSettings(d) == \A i \in 1..Len(d) : CleanValue(d[i][2])

\* C10: the filter returns the builder's block unchanged when the values
\* hold no newline and no white space at either end
C10_FilterKeepsBlock ==
    pc = "piped" /\ CleanSettings(agent_settings) => sanitized = block

C10_Witness ==
    /\ pc = "piped"
    /\ CleanSettings(agent_settings)
    /\ Len(Lines(block)) >= 3
    /\ sanitized = block

====
